---- MODULE Spec2Model ----
(***************************************************************************)
(* A model of prefect's Flow (src/prefect/core/flow.py): the task mapping  *)
(* and edge set, the construction API (add_task, add_edge,                 *)
(* set_dependencies), the graph queries (sorted_tasks, sub_flow) and the   *)
(* two reconstruction paths (deserialize, safe_deserialize); and of the     *)
(* DaskExecutor (src/src/prefect/engine/executors/dask.py): the start      *)
(* scope, submit, map, wait and the copies of the executor that travel to  *)
(* the workers.                                                            *)
(*                                                                         *)
(* Errors are named after the taxonomy of the specification; in the code   *)
(* each of them is a ValueError (TypeError for a non-Task) told apart by   *)
(* the statement that raises it.                                           *)
(***************************************************************************)
EXTENDS Integers, Sequences, FiniteSets, TLC

VARIABLES tasks, edges, call, persisted, origin, loaded,
          executor, scopes, sessions, worker_copy, futures, ecall, waiting, now

flowVars == <<tasks, edges, call, persisted, origin, loaded>>

execVars == <<executor, scopes, sessions, worker_copy, futures, ecall, waiting, now>>

vars == <<tasks, edges, call, persisted, origin, loaded,
          executor, scopes, sessions, worker_copy, futures, ecall, waiting, now>>

\* ------------------------------------------------------------------------
\* Bounds

\* add_edge and set_dependencies are not called once the Flow holds this many edges
MaxEdges == 3
\* most tasks passed to one set_dependencies call (upstream + downstream + results)
MaxDeps == 2
\* most elements of the root_tasks argument of sorted_tasks / sub_flow
MaxRoots == 2
\* most task records and most edge records of an untrusted persisted record
MaxForgedTasks == 2
MaxForgedEdges == 2
\* most start() scopes of the executor open at once
MaxScopes == 2
\* most backend sessions the executor asks for in one run
MaxStarts == 2
\* most futures the backend holds in one run: no call is made that would
\* lead to more
MaxFutures == 3
\* most elements of the iterable of a map call, and of the list given to wait
MaxLen == 2
\* the clock stops here
MaxTime == 2
\* most futures around the result of a job that returns a future
MaxNest == 4

\* ------------------------------------------------------------------------
\* Graph entities (prefect.core.task, prefect.core.edge: not part of the
\* sources at hand)

NoKey == "None"
Keys == {NoKey, "x"}

\* A Task object: identity (id), name, slug and, for the Parameter variant,
\* required / default.  Two Task objects are equal when they are the same
\* object, which is what "task in self.tasks.values()" tests.
TaskObject(i, n, s, k, r, d) ==
    [id |-> i, name |-> n, slug |-> s, kind |-> k, required |-> r, default |-> d]

\* The objects the callers of the model hold.  1 and 2 share a name, 2 and
\* 3 share a slug, 3 is a Parameter.
TaskObjects ==
    { TaskObject(1, "A", "sa", "Task",      FALSE, "None"),
      TaskObject(2, "A", "sb", "Task",      FALSE, "None"),
      TaskObject(3, "B", "sb", "Parameter", TRUE,  "None"),
      TaskObject(4, "C", "sc", "Task",      FALSE, "None") }

\* A value that is not a Task, with enough fields to be passed around
NotATask == TaskObject(0, "N", "sn", "str", FALSE, "None")

Names == {t.name : t \in TaskObjects}

IsTask(t) == t.kind \in {"Task", "Parameter"}

Edge(u, d, k) == [upstream_task |-> u, downstream_task |-> d, key |-> k]

\* ------------------------------------------------------------------------
\* Helpers

Values(m) == {m[n] : n \in DOMAIN m}

EmptyMap == [n \in {} |-> NotATask]

RECURSIVE Perms(_)
Perms(S) ==
    IF S = {} THEN {<<>>}
    ELSE UNION {{<<x>> \o p : p \in Perms(S \ {x})} : x \in S}

\* list(s) for a set s of tasks, the iteration order of sets being given by order
Listing(S, order) == SelectSeq(order, LAMBDA x : x \in S)

SeqRange(s) == {s[i] : i \in 1..Len(s)}

\* The result of a call on a Flow: the Flow afterwards and the error raised, if any
Outcome(ts, es, res) == [tasks |-> ts, edges |-> es, result |-> res]

\* ------------------------------------------------------------------------
\* Flow: construction

\* add_task with the slug looked up among the keys of the mapping
add_task_SlugAmongNames(F, task) ==
    IF ~IsTask(task) THEN Outcome(F.tasks, F.edges, "TypeKindError")
    ELSE IF task.slug \in DOMAIN F.tasks
    THEN Outcome(F.tasks, F.edges, "DuplicateSlugError")
    ELSE Outcome([n \in DOMAIN F.tasks \cup {task.name} |->
                     IF n = task.name THEN task ELSE F.tasks[n]],
                 F.edges, "ok")

\* add_task with the entry it is about to replace left out of the slug check
add_task_SkipSameName(F, task) ==
    IF ~IsTask(task) THEN Outcome(F.tasks, F.edges, "TypeKindError")
    ELSE IF task.slug \in {F.tasks[n].slug : n \in DOMAIN F.tasks \ {task.name}}
    THEN Outcome(F.tasks, F.edges, "DuplicateSlugError")
    ELSE Outcome([n \in DOMAIN F.tasks \cup {task.name} |->
                     IF n = task.name THEN task ELSE F.tasks[n]],
                 F.edges, "ok")

add_task(F, task) ==
    IF ~IsTask(task) THEN Outcome(F.tasks, F.edges, "TypeKindError")
    ELSE IF task.slug \in {t.slug : t \in Values(F.tasks)}
    THEN Outcome(F.tasks, F.edges, "DuplicateSlugError")
    ELSE Outcome([n \in DOMAIN F.tasks \cup {task.name} |->
                     IF n = task.name THEN task ELSE F.tasks[n]],
                 F.edges, "ok")

get_task(F, name) == F.tasks[name]

\* upstream_tasks following the edges the wrong way
upstream_tasks_Downstream(F, name) ==
    {get_task(F, e.downstream_task) : e \in {x \in F.edges : x.upstream_task = name}}

upstream_tasks(F, name) ==
    {get_task(F, e.upstream_task) : e \in {x \in F.edges : x.downstream_task = name}}

downstream_tasks(F, name) ==
    {get_task(F, e.downstream_task) : e \in {x \in F.edges : x.upstream_task = name}}

\* ------------------------------------------------------------------------
\* Flow: sorted_tasks

NoRoots == [given |-> FALSE, names |-> {}, objs |-> {}]
Roots(ns, os) == [given |-> TRUE, names |-> ns, objs |-> os]

\* the closure stopped after the direct downstream tasks of the roots
DownstreamClosure_OneStep(F, ts, seen) ==
    ts \cup UNION {downstream_tasks(F, t.name) : t \in ts \ seen}

\* the while loop of lines 228-234
RECURSIVE DownstreamClosure(_, _, _)
DownstreamClosure(F, ts, seen) ==
    IF seen = ts THEN ts
    ELSE LET new == ts \ seen
         IN DownstreamClosure(F,
                ts \cup UNION {downstream_tasks(F, t.name) : t \in new},
                seen \cup new)

\* the for loop of lines 241-252, over the snapshot todo of the remaining set
RECURSIVE SortPass(_, _, _, _, _)
SortPass(F, todo, remaining, sorted, acyclic) ==
    IF todo = <<>>
    THEN [remaining |-> remaining, sorted |-> sorted, acyclic |-> acyclic]
    ELSE LET task == Head(todo)
         IN IF \E u \in upstream_tasks(F, task.name) : u \in remaining
            THEN SortPass(F, Tail(todo), remaining, sorted, acyclic)
            ELSE SortPass(F, Tail(todo), remaining \ {task},
                          Append(sorted, task), TRUE)

\* the while loop of lines 239-255
RECURSIVE SortLoop(_, _, _, _)
SortLoop(F, remaining, sorted, order) ==
    IF remaining = {} THEN [result |-> "ok", out |-> sorted]
    ELSE LET p == SortPass(F, Listing(remaining, order), remaining, sorted, FALSE)
         IN IF ~p.acyclic THEN [result |-> "CycleError", out |-> <<>>]
            ELSE SortLoop(F, p.remaining, p.sorted, order)

\* sorted_tasks refusing any Flow with a cycle, in or out of the tasks it
\* is to sort
sorted_tasks_WholeFlow(F, root_tasks, order) ==
    IF SortLoop(F, Values(F.tasks), <<>>, order).result # "ok"
    THEN [result |-> "CycleError", out |-> <<>>]
    ELSE IF ~root_tasks.given
    THEN SortLoop(F, Values(F.tasks), <<>>, order)
    ELSE IF ~(root_tasks.names \subseteq DOMAIN F.tasks)
    THEN [result |-> "NotFoundError", out |-> <<>>]
    ELSE SortLoop(F,
             DownstreamClosure(F,
                 {get_task(F, n) : n \in root_tasks.names} \cup root_tasks.objs, {}),
             <<>>, order)

sorted_tasks(F, root_tasks, order) ==
    IF ~root_tasks.given
    THEN SortLoop(F, Values(F.tasks), <<>>, order)
    ELSE IF ~(root_tasks.names \subseteq DOMAIN F.tasks)
    THEN [result |-> "NotFoundError", out |-> <<>>]
    ELSE SortLoop(F,
             DownstreamClosure(F,
                 {get_task(F, n) : n \in root_tasks.names} \cup root_tasks.objs, {}),
             <<>>, order)

\* The iteration order used by the sorted_tasks() call that add_edge makes
\* for its cycle check: the check uses only whether the call raises, which
\* is the same for every order (OrderIndependentCycleCheck).
RECURSIVE SetToSeq(_)
SetToSeq(S) ==
    IF S = {} THEN <<>>
    ELSE LET x == CHOOSE y \in S : \A z \in S : y.id <= z.id
         IN <<x>> \o SetToSeq(S \ {x})

\* the key looked for among the edges that leave the downstream task
HasKeyedEdge_FromDownstream(F, downstream_name, key) ==
    \E e \in F.edges : /\ e.upstream_task = downstream_name
                        /\ e.key = key

\* existing_edges of lines 129-134 is not empty
HasKeyedEdge(F, downstream_name, key) ==
    \E e \in F.edges : /\ e.downstream_task = downstream_name
                        /\ e.key = key

add_edge(F, upstream_task, downstream_task, key) ==
    LET edge == Edge(upstream_task.name, downstream_task.name, key)
        F1 == IF upstream_task \notin Values(F.tasks)
              THEN add_task(F, upstream_task)
              ELSE Outcome(F.tasks, F.edges, "ok")
    IN  IF F1.result # "ok" THEN F1
        ELSE
        LET F2 == IF downstream_task \notin Values(F1.tasks)
                  THEN add_task(F1, downstream_task)
                  ELSE F1
        IN  IF F2.result # "ok" THEN F2
            ELSE IF /\ edge.key # NoKey
                    /\ HasKeyedEdge(F2, downstream_task.name, edge.key)
            THEN Outcome(F2.tasks, F2.edges, "DuplicateKeyError")
            ELSE
            LET F3 == Outcome(F2.tasks, F2.edges \cup {edge}, "ok")
            IN  Outcome(F3.tasks, F3.edges,
                    sorted_tasks(F3, NoRoots, SetToSeq(Values(F3.tasks))).result)

\* The add_edge calls of one set_dependencies call, in order; the first
\* error ends the call and is propagated.
RECURSIVE AddEdges(_, _)
AddEdges(F, steps) ==
    IF steps = <<>> THEN Outcome(F.tasks, F.edges, "ok")
    ELSE LET r == add_edge(F, steps[1].upstream_task, steps[1].downstream_task,
                           steps[1].key)
         IN IF r.result # "ok" THEN r ELSE AddEdges(r, Tail(steps))

\* prefect.utilities.tasks.as_task: a Task is returned as it is
as_task(t) == t

\* set_dependencies undoing the whole call when a step fails
set_dependencies_AllOrNothing(F, task, upstream, downstream, upstream_results) ==
    LET F0 == IF task \notin Values(F.tasks)
              THEN add_task(F, task)
              ELSE Outcome(F.tasks, F.edges, "ok")
        r == AddEdges(F0,
                [i \in 1..Len(upstream) |->
                    Edge(upstream[i], task, NoKey)]
                \o [i \in 1..Len(downstream) |->
                    Edge(task, downstream[i], NoKey)]
                \o [i \in 1..Len(upstream_results) |->
                    Edge(as_task(upstream_results[i].task), task,
                         upstream_results[i].key)])
    IN  IF F0.result # "ok" THEN F0
        ELSE IF r.result # "ok" THEN Outcome(F.tasks, F.edges, r.result)
        ELSE r

\* upstream_results is a sequence of [key, task] with distinct keys: the
\* items() of the mapping in its iteration order
set_dependencies(F, task, upstream, downstream, upstream_results) ==
    LET F0 == IF task \notin Values(F.tasks)
              THEN add_task(F, task)
              ELSE Outcome(F.tasks, F.edges, "ok")
    IN  IF F0.result # "ok" THEN F0
        ELSE AddEdges(F0,
                [i \in 1..Len(upstream) |->
                    Edge(upstream[i], task, NoKey)]
                \o [i \in 1..Len(downstream) |->
                    Edge(task, downstream[i], NoKey)]
                \o [i \in 1..Len(upstream_results) |->
                    Edge(as_task(upstream_results[i].task), task,
                         upstream_results[i].key)])

\* ------------------------------------------------------------------------
\* Flow: sub_flow

RECURSIVE AddTasks(_, _)
AddTasks(F, ts) ==
    IF ts = <<>> THEN Outcome(F.tasks, F.edges, "ok")
    ELSE LET r == add_task(F, Head(ts))
         IN IF r.result # "ok" THEN r ELSE AddTasks(r, Tail(ts))

\* The copy gets a dict and a set of its own (lines 322-324): self keeps
\* its own.  The outcome holds self after the call (tasks, edges) and the
\* Flow returned (sub_tasks, sub_edges).
SubOutcome(F, ts, es, res) ==
    [tasks |-> F.tasks, edges |-> F.edges,
     sub_tasks |-> ts, sub_edges |-> es, result |-> res]

\* sub_flow keeping every edge whose downstream task survives
sub_flow_DownstreamOnly(F, root_tasks, order) ==
    LET st == sorted_tasks(F, root_tasks, order)
    IN  IF st.result # "ok" THEN SubOutcome(F, EmptyMap, {}, st.result)
        ELSE
        LET sub == AddTasks([tasks |-> EmptyMap, edges |-> {}], st.out)
        IN  IF sub.result # "ok" THEN SubOutcome(F, EmptyMap, {}, sub.result)
            ELSE SubOutcome(F, sub.tasks,
                    {e \in F.edges : e.downstream_task \in DOMAIN sub.tasks},
                    "ok")

sub_flow(F, root_tasks, order) ==
    LET st == sorted_tasks(F, root_tasks, order)
    IN  IF st.result # "ok" THEN SubOutcome(F, EmptyMap, {}, st.result)
        ELSE
        LET sub == AddTasks([tasks |-> EmptyMap, edges |-> {}], st.out)
        IN  IF sub.result # "ok" THEN SubOutcome(F, EmptyMap, {}, sub.result)
            ELSE SubOutcome(F, sub.tasks,
                    {e \in F.edges : /\ e.upstream_task \in DOMAIN sub.tasks
                                     /\ e.downstream_task \in DOMAIN sub.tasks},
                    "ok")

\* ------------------------------------------------------------------------
\* Flow: persistence

\* The attributes a Flow gets from its constructor (lines 40-49); the model
\* builds one Flow.
FlowAttrs ==
    [name |-> "Flow", version |-> "None", project |-> "Flows",
     schedule |-> "NoSchedule", concurrent_runs |-> "None"]

\* slugify(name) when the version is None or ''
FlowSlug(attrs) ==
    IF attrs.version \in {"None", ""} THEN attrs.name
    ELSE attrs.name \o "-" \o attrs.version

parameters(F) ==
    [n \in {m \in DOMAIN F.tasks : F.tasks[m].kind = "Parameter"} |->
        [required |-> F.tasks[n].required, default |-> F.tasks[n].default]]

\* Task.serialize, Task.safe_deserialize and Task.deserialize
\* (prefect.core.task): the record of a task holds its name, slug, type and
\* parameter metadata; the safe path builds a placeholder from them, a new
\* object (ids from 100) that carries no logic; the full path rebuilds the
\* task with its logic (ids from 200).
Task_serialize(t, i) ==
    [name |-> t.name, slug |-> t.slug, type |-> t.kind,
     required |-> t.required, default |-> t.default, sort_order |-> i]

Task_safe_deserialize(r, i) ==
    TaskObject(100 + i, r.name, r.slug, r.type, r.required, r.default)

Task_deserialize(r, i) ==
    TaskObject(200 + i, r.name, r.slug, r.type, r.required, r.default)

\* Edge.serialize and Edge.deserialize (prefect.core.edge)
Edge_serialize(e) ==
    [upstream_task |-> e.upstream_task, downstream_task |-> e.downstream_task,
     key |-> e.key]

Edge_deserialize(r) == Edge(r.upstream_task, r.downstream_task, r.key)

\* prefect.utilities.serialize: the blob of an object holds its class, its
\* attributes and whatever code loading it runs; loading a blob runs that
\* code.
Blob(cls, attrs, payload) == [cls |-> cls, attrs |-> attrs, payload |-> payload]

utilities_serialize(attrs) == Blob("Flow", attrs, "none")

utilities_deserialize(blob) ==
    [cls |-> blob.cls, attrs |-> blob.attrs,
     ran |-> IF blob.payload = "none" THEN {} ELSE {blob.payload}]

\* the blobs a persisted record can hold when it comes back
Blobs ==
    { utilities_serialize(FlowAttrs),
      Blob("Flow", FlowAttrs, "exploit"),
      Blob("Task", FlowAttrs, "exploit") }

NoRecord == <<>>

\* order: the iteration order of the set of tasks; edge_order: the order in
\* which the edge set is iterated at line 356
serialize(F, order, edge_order) ==
    LET st == sorted_tasks(F, NoRoots, order)
    IN  IF st.result # "ok" THEN [result |-> st.result, record |-> NoRecord]
        ELSE [result |-> "ok",
              record |->
                [project |-> FlowAttrs.project,
                 name |-> FlowAttrs.name,
                 slug |-> FlowSlug(FlowAttrs),
                 version |-> FlowAttrs.version,
                 serialized |-> utilities_serialize(FlowAttrs),
                 tasks |-> [i \in 1..Len(st.out) |-> Task_serialize(st.out[i], i)],
                 edges |-> [i \in 1..Len(edge_order) |->
                               Edge_serialize(edge_order[i])],
                 parameters |-> parameters(F),
                 schedule |-> FlowAttrs.schedule,
                 concurrent_runs |-> FlowAttrs.concurrent_runs]]

\* What a reconstruction yields: the path taken, the record read, the error
\* raised if any, the Flow built (attributes, task mapping, edge set), the
\* blobs handed to the general-purpose deserializer and the code run.
Load(path, rec, res, attrs, ts, es, blobs, ran) ==
    [path |-> path, from |-> rec, result |-> res, attrs |-> attrs,
     tasks |-> ts, edges |-> es, deserialized |-> blobs, ran |-> ran]

NoLoad == Load("none", NoRecord, "ok", FlowAttrs, EmptyMap, {}, {}, {})

NoAttrs == [name |-> "", version |-> "", project |-> "", schedule |-> "",
            concurrent_runs |-> ""]

deserialize(rec) ==
    LET obj == utilities_deserialize(rec.serialized)
    IN  IF obj.cls # "Flow"
        THEN Load("full", rec, "TypeKindError", NoAttrs, EmptyMap, {},
                  {rec.serialized}, obj.ran)
        ELSE
        LET T == AddTasks([tasks |-> EmptyMap, edges |-> {}],
                     [i \in 1..Len(rec.tasks) |-> Task_deserialize(rec.tasks[i], i)])
        IN  IF T.result # "ok"
            THEN Load("full", rec, T.result, NoAttrs, EmptyMap, {},
                      {rec.serialized}, obj.ran)
            ELSE Load("full", rec, "ok",
                      [obj.attrs EXCEPT !.schedule = rec.schedule],
                      T.tasks,
                      {Edge_deserialize(rec.edges[i]) : i \in 1..Len(rec.edges)},
                      {rec.serialized}, obj.ran)

\* the loop of lines 420-424
RECURSIVE ReplayEdges(_, _)
ReplayEdges(F, edge_records) ==
    IF edge_records = <<>> THEN Outcome(F.tasks, F.edges, "ok")
    ELSE LET e == Head(edge_records)
         IN IF ~({e.upstream_task, e.downstream_task} \subseteq DOMAIN F.tasks)
            THEN Outcome(F.tasks, F.edges, "NotFoundError")
            ELSE LET r == add_edge(F, get_task(F, e.upstream_task),
                                   get_task(F, e.downstream_task), e.key)
                 IN IF r.result # "ok" THEN r
                    ELSE ReplayEdges(r, Tail(edge_records))

\* safe_deserialize with the edges replayed without their keys
safe_deserialize_NoKeys(rec) ==
    LET attrs == [name |-> rec.name, version |-> rec.version,
                  project |-> rec.project, schedule |-> rec.schedule,
                  concurrent_runs |-> rec.concurrent_runs]
        T == AddTasks([tasks |-> EmptyMap, edges |-> {}],
                 [i \in 1..Len(rec.tasks) |->
                     Task_safe_deserialize(rec.tasks[i], i)])
        E == ReplayEdges(T, [i \in 1..Len(rec.edges) |->
                                [rec.edges[i] EXCEPT !.key = NoKey]])
    IN  IF T.result # "ok"
        THEN Load("safe", rec, T.result, NoAttrs, EmptyMap, {}, {}, {})
        ELSE IF E.result # "ok"
        THEN Load("safe", rec, E.result, NoAttrs, EmptyMap, {}, {}, {})
        ELSE Load("safe", rec, "ok", attrs, E.tasks, E.edges, {}, {})

\* safe_deserialize taking the attributes of the Flow from the blob
safe_deserialize_ViaBlob(rec) ==
    LET obj == utilities_deserialize(rec.serialized)
        T == AddTasks([tasks |-> EmptyMap, edges |-> {}],
                 [i \in 1..Len(rec.tasks) |->
                     Task_safe_deserialize(rec.tasks[i], i)])
        E == ReplayEdges(T, rec.edges)
    IN  IF T.result # "ok"
        THEN Load("safe", rec, T.result, NoAttrs, EmptyMap, {},
                  {rec.serialized}, obj.ran)
        ELSE IF E.result # "ok"
        THEN Load("safe", rec, E.result, NoAttrs, EmptyMap, {},
                  {rec.serialized}, obj.ran)
        ELSE Load("safe", rec, "ok", obj.attrs, E.tasks, E.edges,
                  {rec.serialized}, obj.ran)

\* safe_deserialize taking the edges of the record as they are
safe_deserialize_RawEdges(rec) ==
    LET attrs == [name |-> rec.name, version |-> rec.version,
                  project |-> rec.project, schedule |-> rec.schedule,
                  concurrent_runs |-> rec.concurrent_runs]
        T == AddTasks([tasks |-> EmptyMap, edges |-> {}],
                 [i \in 1..Len(rec.tasks) |->
                     Task_safe_deserialize(rec.tasks[i], i)])
    IN  IF T.result # "ok"
        THEN Load("safe", rec, T.result, NoAttrs, EmptyMap, {}, {}, {})
        ELSE Load("safe", rec, "ok", attrs, T.tasks,
                  {Edge_deserialize(rec.edges[i]) : i \in 1..Len(rec.edges)},
                  {}, {})

safe_deserialize(rec) ==
    LET attrs == [name |-> rec.name, version |-> rec.version,
                  project |-> rec.project, schedule |-> rec.schedule,
                  concurrent_runs |-> rec.concurrent_runs]
        T == AddTasks([tasks |-> EmptyMap, edges |-> {}],
                 [i \in 1..Len(rec.tasks) |->
                     Task_safe_deserialize(rec.tasks[i], i)])
        E == ReplayEdges(T, rec.edges)
    IN  IF T.result # "ok"
        THEN Load("safe", rec, T.result, NoAttrs, EmptyMap, {}, {}, {})
        ELSE IF E.result # "ok"
        THEN Load("safe", rec, E.result, NoAttrs, EmptyMap, {}, {}, {})
        ELSE Load("safe", rec, "ok", attrs, E.tasks, E.edges, {}, {})

\* ------------------------------------------------------------------------
\* Flow equality

\* A Flow object as == sees it: its attributes, task mapping and edge set
FlowObject(attrs, ts, es) == [attrs |-> attrs, tasks |-> ts, edges |-> es]

\* Python's tuple(): no argument gives (), one iterable gives the tuple of
\* its elements, more arguments are a TypeError
tuple(args) ==
    IF Len(args) > 1 THEN [result |-> "TypeError", out |-> <<>>]
    ELSE [result |-> "ok", out |-> IF args = <<>> THEN <<>> ELSE args[1]]

\* _comps with the six components passed as one tuple
comps_OneTuple(G) ==
    tuple(<< <<"Flow", G.attrs.project, G.attrs.name, G.attrs.version,
               G.tasks, G.edges>> >>)

\* _comps (lines 57-67): the six components are passed to tuple() as six
\* arguments
comps(G) ==
    tuple(<<"Flow", G.attrs.project, G.attrs.name, G.attrs.version,
            G.tasks, G.edges>>)

\* __eq__ (lines 75-76): self._comps == other._comps
eq(self, other) ==
    LET a == comps(self)
    IN  IF a.result # "ok" THEN [result |-> a.result, out |-> <<>>]
        ELSE LET b == comps(other)
             IN  IF b.result # "ok" THEN [result |-> b.result, out |-> <<>>]
                 ELSE [result |-> "ok", out |-> <<a.out = b.out>>]

\* ------------------------------------------------------------------------
\* DaskExecutor: values, futures and the backend

\* What a call or a future yields: None, a plain result, a Future (v is
\* its index in futures) or a list of such values.
NoneVal == [k |-> "none", v |-> 0, items |-> <<>>]
Val(v) == [k |-> "val", v |-> v, items |-> <<>>]
FutRef(i) == [k |-> "fut", v |-> i, items |-> <<>>]
ListOf(items) == [k |-> "list", v |-> 0, items |-> items]

\* The arguments of a piece of work: the iterable x and the scalar c of
\* upstream_states (for one call of fn, x has the one element of the call),
\* and d, the number of futures still to wrap around the result of a job
\* that returns a future.
Args(x, c, d) == [x |-> x, c |-> c, d |-> d]

\* fn, the callable given to submit and map: any function of its arguments
\* that tells them apart
FnApply(arg) == 10 * arg.x[1] + arg.c

\* prefect.utilities.executors.dict_to_list: one mapping per element of the
\* iterable values, the scalar values repeated
dict_to_list(S) == [i \in 1..Len(S.x) |-> Args(<<S.x[i]>>, S.c, 0)]

\* The DaskExecutor object: is_started, whether it has a client attribute
\* and the client (a session number, 0 for None)
ExecutorObject(st, has, cl) == [is_started |-> st, has_client |-> has, client |-> cl]

\* __init__ (lines 51-55): is_started is False and client is not set
NewExecutor == ExecutorObject(FALSE, FALSE, 0)

\* __getstate__ leaving the client in the state
getstate_KeepClient(E) == ExecutorObject(E.is_started, E.has_client, E.client)

\* __getstate__ / __setstate__: the copy has every attribute but client
getstate(E) == ExecutorObject(E.is_started, FALSE, 0)

\* A Future of the backend: the work it stands for (kind "fn": one call of
\* fn; "mapper": the mapper of map; "nest": a job that returns a future),
\* who submitted it (by), through which client (handle "session": the
\* Client of a start scope; "worker": a worker_client()), the session it
\* runs in, and once done its result and its rank among the completions
\* (at).
NewFuture(kind, arg, by, handle, session) ==
    [kind |-> kind, arg |-> arg, by |-> by, handle |-> handle,
     session |-> session, done |-> FALSE, result |-> NoneVal, at |-> 0]

\* What a call on the executor yields: the error raised ("ok" when it
\* returned), the value returned and the futures of the backend afterwards
Dispatch(res, out, futs) == [result |-> res, out |-> out, futures |-> futs]

\* client.submit(...) on the client the branch taken holds; ws is the
\* session of the worker the caller runs in (0 at the top level)
ClientSubmit(E, by, ws, futs, kind, arg) ==
    IF E.has_client
    THEN IF E.client = 0
         THEN Dispatch("AttributeError", NoneVal, futs)
         ELSE Dispatch("ok", FutRef(Len(futs) + 1),
                       Append(futs, NewFuture(kind, arg, by, "session", E.client)))
    ELSE Dispatch("ok", FutRef(Len(futs) + 1),
                  Append(futs, NewFuture(kind, arg, by, "worker", ws)))

\* lines 147-151: no branch is taken when is_started is False and the
\* method ends without a return statement
submit(E, by, ws, futs, kind, arg) ==
    IF E.is_started
    THEN ClientSubmit(E, by, ws, futs, kind, arg)
    ELSE Dispatch("ok", NoneVal, futs)

\* mapper (lines 96-110), run by the backend in a worker of session ws: one
\* client.submit of fn per element, through the worker client
SubmitEach(states, ws, futs) ==
    futs \o [i \in 1..Len(states) |->
                NewFuture("fn", states[i], "mapper", "worker", ws)]

\* mapper returning its futures last first
mapper_LastFirst(S, ws, futs) ==
    LET states == dict_to_list(S)
        after == SubmitEach(states, ws, futs)
    IN  Dispatch("ok",
                 ListOf([i \in 1..Len(states) |->
                            FutRef(Len(futs) + Len(states) + 1 - i)]),
                 after)

mapper(S, ws, futs) ==
    LET states == dict_to_list(S)
        after == SubmitEach(states, ws, futs)
    IN  Dispatch("ok",
                 ListOf([i \in 1..Len(states) |-> FutRef(Len(futs) + i)]),
                 after)

\* map running the mapper itself when it has no session of its own, and
\* returning its list
map_ListInWorker(E, by, ws, futs, S) ==
    IF E.is_started /\ E.has_client
    THEN ClientSubmit(E, by, ws, futs, "mapper", S)
    ELSE IF E.is_started THEN mapper(S, ws, futs)
    ELSE Dispatch("NotStartedError", NoneVal, futs)

\* map sending the mapper through a worker client whenever the executor has
\* no session of its own
map_ElseWorker(E, by, ws, futs, S) ==
    IF E.is_started /\ E.has_client
    THEN ClientSubmit(E, by, ws, futs, "mapper", S)
    ELSE ClientSubmit(ExecutorObject(TRUE, FALSE, 0), by, ws, futs, "mapper", S)

\* lines 112-123
map(E, by, ws, futs, S) ==
    IF E.is_started
    THEN ClientSubmit(E, by, ws, futs, "mapper", S)
    ELSE Dispatch("NotStartedError", NoneVal, futs)

\* The work of future i, run by the backend in a worker: fn returns its
\* value; the mapper returns the list of the futures it submitted; a job
\* that returns a future submits the next job through the copy of the
\* started executor it was sent with, and returns its future.
RunWork(futs, i) ==
    LET f == futs[i]
    IN  IF f.kind = "fn" THEN Dispatch("ok", Val(FnApply(f.arg)), futs)
        ELSE IF f.kind = "mapper" THEN mapper(f.arg, f.session, futs)
        ELSE IF f.arg.d = 0 THEN Dispatch("ok", Val(f.arg.c), futs)
        ELSE submit(getstate(ExecutorObject(TRUE, TRUE, f.session)), "job",
                    f.session, futs, "nest", Args(<<>>, f.arg.c, f.arg.d - 1))

\* Client.gather, one pass: every future of a (nested) list is replaced by
\* its result; gather blocks until these futures are done (GatherReady)
RECURSIVE gather(_, _)
gather(x, futs) ==
    IF x.k = "fut" THEN futs[x.v].result
    ELSE IF x.k = "list"
    THEN ListOf([i \in 1..Len(x.items) |-> gather(x.items[i], futs)])
    ELSE x

RECURSIVE GatherReady(_, _)
GatherReady(x, futs) ==
    IF x.k = "fut" THEN futs[x.v].done
    ELSE IF x.k = "list"
    THEN \A i \in 1..Len(x.items) : GatherReady(x.items[i], futs)
    ELSE TRUE

\* the number of nested self.client.gather calls of lines 166-168
GatherPasses == 4

RECURSIVE Gathers(_, _, _)
Gathers(x, futs, n) == IF n = 0 THEN x ELSE Gathers(gather(x, futs), futs, n - 1)

RECURSIVE GathersReady(_, _, _)
GathersReady(x, futs, n) ==
    IF n = 0 THEN TRUE
    ELSE /\ GatherReady(x, futs)
         /\ GathersReady(gather(x, futs), futs, n - 1)

\* wait (lines 165-169): self.client.futures is read first, which fails
\* when the executor has no client attribute or its client is None; the
\* timeout is not used.  The call returns once the gather calls can.
wait_raises(E) == ~E.has_client \/ E.client = 0

\* wait returning the results of a list of futures in the order the
\* backend completed them
AsCompleted(fs, futs) ==
    LET n == Len(fs.items)
        at(i) == futs[fs.items[i].v].at
        rank(i) == 1 + Cardinality({k \in 1..n :
                        at(k) < at(i) \/ (at(k) = at(i) /\ k < i)})
    IN  ListOf([j \in 1..n |-> fs.items[CHOOSE i \in 1..n : rank(i) = j]])

wait_AsCompleted(E, fs, timeout, futs) ==
    IF wait_raises(E) THEN Dispatch("AttributeError", NoneVal, futs)
    ELSE Dispatch("ok",
                  Gathers(IF fs.k = "list" THEN AsCompleted(fs, futs) ELSE fs,
                          futs, GatherPasses),
                  futs)

wait(E, fs, timeout, futs) ==
    IF wait_raises(E) THEN Dispatch("AttributeError", NoneVal, futs)
    ELSE Dispatch("ok", Gathers(fs, futs, GatherPasses), futs)

\* ------------------------------------------------------------------------
\* State

Flow == [tasks |-> tasks, edges |-> edges]

\* call: the call on the Flow that has just ended, with its arguments, the
\* task mapping and edge set it started from, the error it raised ("ok"
\* when it returned) and what it returned, until the caller has taken the
\* outcome (Return); NoCall between calls.
NoCall == [op |-> "idle", args |-> <<>>, result |-> "ok", out |-> <<>>,
           pre_tasks |-> EmptyMap, pre_edges |-> {}]

Call(op, args, res, out) ==
    [op |-> op, args |-> args, result |-> res, out |-> out,
     pre_tasks |-> tasks, pre_edges |-> edges]

\* The Flow is built by one thread (no concurrent calls): a call starts
\* when the previous one has ended and its outcome has been taken.  Once
\* the Flow has been persisted the model follows the record (persisted; as
\* written by serialize in origin), which may come back with another blob
\* (Tamper) and is read by either reconstruction path (loaded).
Idle == call = NoCall

\* The copy of the executor that was sent to a worker with a piece of work
\* (pickled by __getstate__, rebuilt by __setstate__), and the session the
\* worker belongs to; NoCopy before any was sent.
NoCopy == [present |-> FALSE, ex |-> NewExecutor, session |-> 0]

\* ecall: the call on the executor that has just ended: who called ("top":
\* the top-level code; "copy": code in a worker, on the copy), with what,
\* the executor object and the futures of the backend it started from, the
\* error raised ("ok" when it returned) and what it returned, until the
\* caller has taken the outcome (EReturn); NoECall between calls.
NoECall == [op |-> "idle", by |-> "top", arg |-> Args(<<>>, 0, 0),
            fs |-> NoneVal, timeout |-> 0, how |-> "", result |-> "ok",
            out |-> NoneVal, pre |-> NewExecutor, pre_futures |-> <<>>,
            pre_scopes |-> <<>>]

\* waiting: the wait call the top-level thread is blocked in, the timeout
\* it was given (0 for None) and the time it started at
NoWait == [active |-> FALSE, fs |-> NoneVal, timeout |-> 0, start |-> 0]

Return ==
    /\ ~Idle
    /\ persisted = NoRecord
    /\ call' = NoCall
    /\ UNCHANGED <<tasks, edges, persisted, origin, loaded>>
    /\ UNCHANGED execVars

Init ==
    /\ tasks = EmptyMap
    /\ edges = {}
    /\ call = NoCall
    /\ persisted = NoRecord
    /\ origin = NoRecord
    /\ loaded = NoLoad
    /\ executor = NewExecutor
    /\ scopes = <<>>
    /\ sessions = <<>>
    /\ worker_copy = NoCopy
    /\ futures = <<>>
    /\ ecall = NoECall
    /\ waiting = NoWait
    /\ now = 0

AddTask ==
    /\ Idle
    /\ \E t \in TaskObjects \cup {NotATask} :
        LET r == add_task(Flow, t)
        IN  /\ tasks' = r.tasks
            /\ edges' = r.edges
            /\ call' = Call("add_task", <<t>>, r.result, <<>>)
            /\ UNCHANGED <<persisted, origin, loaded>>
            /\ UNCHANGED execVars

AddEdge ==
    /\ Idle
    /\ Cardinality(edges) < MaxEdges
    /\ \E u \in TaskObjects, d \in TaskObjects, k \in Keys :
        LET r == add_edge(Flow, u, d, k)
        IN  /\ tasks' = r.tasks
            /\ edges' = r.edges
            /\ call' = Call("add_edge", <<u, d, k>>, r.result, <<>>)
            /\ UNCHANGED <<persisted, origin, loaded>>
            /\ UNCHANGED execVars

\* Sequences over S of length at most n
RECURSIVE SeqsUpTo(_, _)
SeqsUpTo(S, n) ==
    IF n = 0 THEN {<<>>}
    ELSE LET shorter == SeqsUpTo(S, n - 1)
         IN shorter \cup {Append(q, x) : q \in shorter, x \in S}

\* The upstream_tasks, downstream_tasks and upstream_results arguments of a
\* set_dependencies call
DepArgs ==
    {a \in SeqsUpTo(TaskObjects, MaxDeps) \X SeqsUpTo(TaskObjects, MaxDeps)
            \X ({<<>>} \cup {<<[key |-> k, task |-> t]>> :
                               k \in Keys \ {NoKey}, t \in TaskObjects}) :
        Len(a[1]) + Len(a[2]) + Len(a[3]) <= MaxDeps}

SetDependencies ==
    /\ Idle
    /\ \E t \in TaskObjects, a \in DepArgs :
        /\ Cardinality(edges) + Len(a[1]) + Len(a[2]) + Len(a[3]) <= MaxEdges
        /\ LET r == set_dependencies(Flow, t, a[1], a[2], a[3])
           IN  /\ tasks' = r.tasks
               /\ edges' = r.edges
               /\ call' = Call("set_dependencies", <<t, a[1], a[2], a[3]>>,
                               r.result, <<>>)
               /\ UNCHANGED <<persisted, origin, loaded>>
               /\ UNCHANGED execVars

\* The root_tasks arguments of sorted_tasks and sub_flow: None, or names
\* and Task objects of the Flow (a name may be absent from the Flow)
RootArgs ==
    {NoRoots} \cup
    {Roots(ns, os) : ns \in SUBSET Names, os \in SUBSET Values(tasks)}

SortedTasks ==
    /\ Idle
    /\ \E R \in RootArgs, order \in Perms(Values(tasks)) :
        /\ Cardinality(R.names) + Cardinality(R.objs) <= MaxRoots
        /\ LET st == sorted_tasks(Flow, R, order)
           IN  call' = Call("sorted_tasks", <<R>>, st.result, st.out)
        /\ UNCHANGED <<tasks, edges, persisted, origin, loaded>>
        /\ UNCHANGED execVars

SubFlow ==
    /\ Idle
    /\ \E R \in RootArgs, order \in Perms(Values(tasks)) :
        /\ Cardinality(R.names) + Cardinality(R.objs) <= MaxRoots
        /\ LET sub == sub_flow(Flow, R, order)
           IN  /\ tasks' = sub.tasks
               /\ edges' = sub.edges
               /\ call' = Call("sub_flow", <<R>>, sub.result,
                               [tasks |-> sub.sub_tasks, edges |-> sub.sub_edges])
        /\ UNCHANGED <<persisted, origin, loaded>>
        /\ UNCHANGED execVars

Serialize ==
    /\ Idle
    /\ \E order \in Perms(Values(tasks)), edge_order \in Perms(edges) :
        LET r == serialize(Flow, order, edge_order)
        IN  /\ call' = Call("serialize", <<>>, r.result, <<>>)
            /\ persisted' = r.record
            /\ origin' = r.record
            /\ UNCHANGED <<tasks, edges, loaded>>
            /\ UNCHANGED execVars

Tamper ==
    /\ persisted # NoRecord
    /\ loaded = NoLoad
    /\ executor = NewExecutor
    /\ scopes = <<>>
    /\ sessions = <<>>
    /\ worker_copy = NoCopy
    /\ futures = <<>>
    /\ ecall = NoECall
    /\ waiting = NoWait
    /\ now = 0
    /\ \E b \in Blobs \ {persisted.serialized} :
        persisted' = [persisted EXCEPT !.serialized = b]
    /\ UNCHANGED <<tasks, edges, call, origin, loaded>>
    /\ UNCHANGED execVars

SafeDeserialize ==
    /\ persisted # NoRecord
    /\ loaded' = safe_deserialize(persisted)
    /\ UNCHANGED <<tasks, edges, call, persisted, origin>>
    /\ UNCHANGED execVars

Deserialize ==
    /\ persisted # NoRecord
    /\ loaded' = deserialize(persisted)
    /\ UNCHANGED <<tasks, edges, call, persisted, origin>>
    /\ UNCHANGED execVars

\* The task records and edge records an untrusted record can hold: names
\* and slugs that clash, edges that name absent tasks, repeat a key or
\* close a cycle
ForgedTasks ==
    {[name |-> n, slug |-> g, type |-> "Task", required |-> FALSE,
      default |-> "None", sort_order |-> 0] : n \in {"A", "B"}, g \in {"sa", "sb"}}

ForgedEdges ==
    {Edge_serialize(Edge(u, d, k)) : u \in {"A", "B", "Z"}, d \in {"A", "B", "Z"},
                                     k \in Keys}

\* The persisted record comes back from an untrusted store with other
\* tasks and edges
Forge ==
    /\ persisted # NoRecord
    /\ persisted = origin
    /\ loaded = NoLoad
    /\ \E ts \in SeqsUpTo(ForgedTasks, MaxForgedTasks),
          es \in SeqsUpTo(ForgedEdges, MaxForgedEdges) :
        persisted' = [persisted EXCEPT
                         !.tasks = [i \in 1..Len(ts) |->
                                       [ts[i] EXCEPT !.sort_order = i]],
                         !.edges = es]
    /\ persisted' # persisted
    /\ UNCHANGED <<tasks, edges, call, origin, loaded>>
    /\ UNCHANGED execVars

\* f == g, with g the Flow itself or the Flow a reconstruction has returned
Others == {"self", "loaded"}

Other(g) ==
    IF g = "self" THEN FlowObject(FlowAttrs, tasks, edges)
    ELSE FlowObject(loaded.attrs, loaded.tasks, loaded.edges)

Equals ==
    /\ \E g \in Others :
        /\ IF g = "self" THEN Idle
           ELSE loaded # NoLoad /\ loaded.result = "ok" /\ call.op # "__eq__"
        /\ LET r == eq(FlowObject(FlowAttrs, tasks, edges), Other(g))
           IN  call' = Call("__eq__", <<g>>, r.result, r.out)
    /\ UNCHANGED <<tasks, edges, persisted, origin, loaded>>
    /\ UNCHANGED execVars

Next == AddTask \/ AddEdge \/ SetDependencies \/ Return

Spec == Init /\ [][Next]_vars

NextQuery == AddTask \/ AddEdge \/ SortedTasks \/ SubFlow \/ Return

SpecQuery == Init /\ [][NextQuery]_vars

NextPersist ==
    \/ AddTask \/ AddEdge \/ Return
    \/ Serialize \/ Tamper \/ SafeDeserialize \/ Deserialize

SpecPersist == Init /\ [][NextPersist]_vars

\* Flows built, persisted, reconstructed and compared
NextCompare ==
    \/ AddTask \/ AddEdge \/ Return
    \/ Serialize \/ SafeDeserialize \/ Deserialize \/ Equals

SpecCompare == Init /\ [][NextCompare]_vars

\* Untrusted records read by the safe path
NextUntrusted == Serialize \/ Forge \/ SafeDeserialize

SpecUntrusted == Init /\ [][NextUntrusted]_vars

\* ------------------------------------------------------------------------
\* DaskExecutor: the calls on the executor and the steps of the backend

ECall(op, by, E, arg, fs, timeout, how, res, out) ==
    [op |-> op, by |-> by, arg |-> arg, fs |-> fs, timeout |-> timeout,
     how |-> how, result |-> res, out |-> out, pre |-> E,
     pre_futures |-> futures, pre_scopes |-> scopes]

EIdle == ecall = NoECall

\* The top-level code is one thread: it makes no call while it is blocked
\* in wait.
TopFree == EIdle /\ ~waiting.active

EReturn ==
    /\ ~EIdle
    /\ ecall' = NoECall
    /\ UNCHANGED <<executor, scopes, sessions, worker_copy, futures, waiting, now>>
    /\ UNCHANGED flowVars

\* lines 71-77, leaving the scope: the finally clause
start_exit_NoFinally(E, how) ==
    IF how = "exception" THEN E ELSE ExecutorObject(FALSE, TRUE, 0)

start_exit(E, how) == ExecutorObject(FALSE, TRUE, 0)

\* start(), entering the scope (lines 71-75): Client(...) gives a new
\* session, kept in self.client, and is_started is set
StartEnter ==
    /\ TopFree
    /\ Len(scopes) < MaxScopes
    /\ Len(sessions) < MaxStarts
    /\ sessions' = Append(sessions, "open")
    /\ scopes' = Append(scopes, Len(sessions) + 1)
    /\ executor' = ExecutorObject(TRUE, TRUE, Len(sessions) + 1)
    /\ ecall' = ECall("start", "top", executor, Args(<<>>, 0, 0), NoneVal, 0,
                      "enter", "ok", NoneVal)
    /\ UNCHANGED <<worker_copy, futures, waiting, now>>
    /\ UNCHANGED flowVars

\* start() when Client(...) raises: no session is acquired, the scope body
\* does not run and the finally clause does
StartFail ==
    /\ TopFree
    /\ Len(scopes) < MaxScopes
    /\ executor' = start_exit(executor, "exception")
    /\ ecall' = ECall("start", "top", executor, Args(<<>>, 0, 0), NoneVal, 0,
                      "failed", "ConnectionError", NoneVal)
    /\ UNCHANGED <<scopes, sessions, worker_copy, futures, waiting, now>>
    /\ UNCHANGED flowVars

\* Leaving the innermost open scope, at the end of its body or by an
\* exception raised in the body: the Client context closes the session, then
\* the finally clause runs
StartExit ==
    /\ TopFree
    /\ scopes # <<>>
    /\ \E how \in {"normal", "exception"} :
        /\ sessions' = [sessions EXCEPT ![scopes[Len(scopes)]] = "closed"]
        /\ scopes' = SubSeq(scopes, 1, Len(scopes) - 1)
        /\ executor' = start_exit(executor, how)
        /\ ecall' = ECall("start", "top", executor, Args(<<>>, 0, 0), NoneVal, 0,
                          how, IF how = "normal" THEN "ok" ELSE "BodyError", NoneVal)
    /\ UNCHANGED <<worker_copy, futures, waiting, now>>
    /\ UNCHANGED flowVars

\* The executor object a caller holds and the session of the worker it
\* runs in (0 at the top level)
Caller(by) ==
    IF by = "top" THEN [ex |-> executor, ws |-> 0]
    ELSE [ex |-> worker_copy.ex, ws |-> worker_copy.session]

\* Code in a worker runs while the session of the worker is open
CanCall(by) ==
    IF by = "top" THEN TopFree
    ELSE /\ EIdle
         /\ worker_copy.present
         /\ sessions[worker_copy.session] = "open"

\* the elements of iterable values and the scalar values of upstream_states
Elems == {1, 2}
Scalars == {1}

\* who calls submit and map: the top-level code on the executor, or code in
\* a worker on the copy it was sent
Callers == {"top", "copy"}

\* The futures the backend holds, with those the mappers that have not run
\* yet are going to submit
RECURSIVE Booked(_)
Booked(futs) ==
    IF futs = <<>> THEN 0
    ELSE 1 + Booked(Tail(futs))
           + (IF Head(futs).kind = "mapper" /\ ~Head(futs).done
              THEN Len(Head(futs).arg.x) ELSE 0)

\* submit(fn, ...): each call is given arguments of its own, so that the
\* value fn returns tells which call it was
Submit ==
    /\ Booked(futures) < MaxFutures
    /\ \E by \in Callers :
        /\ CanCall(by)
        /\ LET arg == Args(<<Len(futures) + 1>>, 0, 0)
               r == submit(Caller(by).ex, by, Caller(by).ws, futures, "fn", arg)
           IN  /\ futures' = r.futures
               /\ ecall' = ECall("submit", by, Caller(by).ex, arg, NoneVal, 0, "",
                                 r.result, r.out)
    /\ UNCHANGED <<executor, scopes, sessions, worker_copy, waiting, now>>
    /\ UNCHANGED flowVars

Map ==
    /\ \E by \in Callers, x \in SeqsUpTo(Elems, MaxLen), c \in Scalars :
        /\ Booked(futures) + 1 + Len(x) <= MaxFutures
        /\ CanCall(by)
        /\ LET S == Args(x, c, 0)
               r == map(Caller(by).ex, by, Caller(by).ws, futures, S)
           IN  /\ futures' = r.futures
               /\ ecall' = ECall("map", by, Caller(by).ex, S, NoneVal, 0, "",
                                 r.result, r.out)
    /\ UNCHANGED <<executor, scopes, sessions, worker_copy, waiting, now>>
    /\ UNCHANGED flowVars

\* The executor is sent to a worker with a piece of work submitted through
\* the session of the open scope
Transfer ==
    /\ TopFree
    /\ executor.is_started
    /\ executor.client # 0
    /\ worker_copy' = [present |-> TRUE, ex |-> getstate(executor),
                       session |-> executor.client]
    /\ worker_copy' # worker_copy
    /\ UNCHANGED <<executor, scopes, sessions, futures, ecall, waiting, now>>
    /\ UNCHANGED flowVars

\* submit of a job that submits another job from its worker and returns
\* the future it got, d levels deep (d = 1: the job returns the future of
\* a plain result); it is the first work of the run
SubmitNested ==
    /\ TopFree
    /\ futures = <<>>
    /\ \E d \in 1..MaxNest :
        LET arg == Args(<<>>, 1, d)
            r == submit(executor, "top", 0, futures, "nest", arg)
        IN  /\ futures' = r.futures
            /\ ecall' = ECall("submit", "top", executor, arg, NoneVal, 0, "",
                              r.result, r.out)
    /\ UNCHANGED <<executor, scopes, sessions, worker_copy, waiting, now>>
    /\ UNCHANGED flowVars

\* The backend runs the work of a future, in any order
Complete ==
    /\ EIdle
    /\ \E i \in 1..Len(futures) :
        /\ ~futures[i].done
        /\ sessions[futures[i].session] = "open"
        /\ LET r == RunWork(futures, i)
           IN  futures' = [r.futures EXCEPT
                              ![i].done = TRUE, ![i].result = r.out,
                              ![i].at = 1 + Cardinality({j \in 1..Len(futures) :
                                                            futures[j].done})]
    /\ UNCHANGED <<executor, scopes, sessions, worker_copy, ecall, waiting, now>>
    /\ UNCHANGED flowVars

\* The futures argument of wait: a future the top-level code was returned
\* by submit or map, or a list of such futures
Held == {i \in 1..Len(futures) : futures[i].by = "top"}

WaitArgs ==
    {FutRef(i) : i \in Held} \cup
    {ListOf([j \in 1..Len(q) |-> FutRef(q[j])]) : q \in SeqsUpTo(Held, MaxLen)}

\* the timeouts given to wait, in units of the clock
Timeouts == {1}

\* The futures of fs belong to the session of the client that gathers them
OfSession(fs, E) ==
    \A i \in 1..Len(futures) :
        FutRef(i) \in {fs} \cup SeqRange(fs.items) => futures[i].session = E.client

\* wait(futures): the call fails at once (line 165), or blocks in gather
\* and returns once every gather call has the results it asks for
Wait ==
    /\ TopFree
    /\ \E fs \in WaitArgs :
        /\ \/ wait_raises(executor)
           \/ /\ OfSession(fs, executor)
              /\ GathersReady(fs, futures, GatherPasses)
        /\ LET r == wait(executor, fs, 0, futures)
           IN  ecall' = ECall("wait", "top", executor, Args(<<>>, 0, 0), fs, 0, "",
                              r.result, r.out)
    /\ UNCHANGED <<executor, scopes, sessions, worker_copy, futures, waiting, now>>
    /\ UNCHANGED flowVars

\* wait(futures, timeout=t) called on an executor in its scope: the caller
\* is blocked from now on
WaitTimeout ==
    /\ TopFree
    /\ ~wait_raises(executor)
    /\ \E fs \in WaitArgs, t \in Timeouts :
        /\ OfSession(fs, executor)
        /\ waiting' = [active |-> TRUE, fs |-> fs, timeout |-> t, start |-> now]
    /\ UNCHANGED <<executor, scopes, sessions, worker_copy, futures, ecall, now>>
    /\ UNCHANGED flowVars

\* the blocked wait returns, once every gather call has the results it
\* asks for
WaitEnd ==
    /\ EIdle
    /\ waiting.active
    /\ GathersReady(waiting.fs, futures, GatherPasses)
    /\ LET r == wait(executor, waiting.fs, waiting.timeout, futures)
       IN  ecall' = ECall("wait", "top", executor, Args(<<>>, 0, 0), waiting.fs,
                          waiting.timeout, "", r.result, r.out)
    /\ waiting' = NoWait
    /\ UNCHANGED <<executor, scopes, sessions, worker_copy, futures, now>>
    /\ UNCHANGED flowVars

\* Time passes while the caller is blocked in wait
Tick ==
    /\ EIdle
    /\ waiting.active
    /\ now < MaxTime
    /\ now' = now + 1
    /\ UNCHANGED <<executor, scopes, sessions, worker_copy, futures, ecall, waiting>>
    /\ UNCHANGED flowVars

\* The scope of the executor, the calls made in and out of it and the copy
\* sent to the workers
NextExec ==
    \/ StartEnter \/ StartFail \/ StartExit
    \/ Submit \/ Map \/ Transfer \/ Wait \/ EReturn

SpecExec == Init /\ [][NextExec]_vars

\* The work submitted inside the scope, run by the backend and waited for
NextRun ==
    \/ StartEnter
    \/ Submit \/ Map \/ Complete \/ Wait \/ EReturn

SpecRun == Init /\ [][NextRun]_vars

\* The work submitted from the scope and from the workers, run by the
\* backend
NextWorker ==
    \/ StartEnter \/ Transfer \/ Submit \/ Map \/ Complete \/ EReturn

SpecWorker == Init /\ [][NextWorker]_vars

\* Jobs that return futures, waited for
NextNest ==
    \/ StartEnter \/ SubmitNested \/ Complete \/ Wait \/ EReturn

SpecNest == Init /\ [][NextNest]_vars

\* A wait with a timeout, while the clock runs
NextTimeout ==
    \/ StartEnter \/ Submit \/ Complete
    \/ WaitTimeout \/ WaitEnd \/ Tick \/ EReturn

SpecTimeout == Init /\ [][NextTimeout]_vars

\* ------------------------------------------------------------------------
\* Graph notions the properties are stated with (by task name, as the edges
\* are)

Successors(E, S) == {e.downstream_task : e \in {x \in E : x.upstream_task \in S}}

RECURSIVE Reach(_, _, _)
Reach(E, frontier, acc) ==
    LET nxt == Successors(E, frontier) \ acc
    IN  IF nxt = {} THEN acc ELSE Reach(E, nxt, acc \cup nxt)

\* the names reachable from n along one edge or more
Descendants(E, n) == Reach(E, {n}, {})

Acyclic(E) == \A e \in E : e.upstream_task \notin Descendants(E, e.upstream_task)

\* the names of the roots together with every name downstream of them
ClosureNames(E, R) ==
    LET rn == R.names \cup {o.name : o \in R.objs}
    IN  rn \cup UNION {Descendants(E, n) : n \in rn}

Induced(E, S) == {e \in E : e.upstream_task \in S /\ e.downstream_task \in S}

Position(seq, name) == CHOOSE i \in 1..Len(seq) : seq[i].name = name

NoRepeats(seq) == Cardinality(SeqRange(seq)) = Len(seq)

Slugs(m) == {t.slug : t \in Values(m)}

NewEdge == Edge(call.args[1].name, call.args[2].name, call.args[3])

\* Whether the cycle check of add_edge raises does not depend on the order
\* in which sorted_tasks goes through the task set.
OrderIndependentCycleCheck ==
    \A order \in Perms(Values(tasks)) :
        sorted_tasks(Flow, NoRoots, order).result
            = sorted_tasks(Flow, NoRoots, SetToSeq(Values(tasks))).result

\* ------------------------------------------------------------------------
\* Properties

\* C1: on a Flow whose edge set is acyclic, sorted_tasks() without
\* root_tasks returns every task of the Flow exactly once, and the upstream
\* task of every edge at an earlier position than its downstream task.
C1_TopologicalOrder ==
    (call.op = "sorted_tasks" /\ ~call.args[1].given /\ Acyclic(edges)) =>
        /\ call.result = "ok"
        /\ SeqRange(call.out) = Values(tasks)
        /\ NoRepeats(call.out)
        /\ \A e \in edges :
              Position(call.out, e.upstream_task)
                  < Position(call.out, e.downstream_task)

C1_Witness ==
    /\ call.op = "sorted_tasks" /\ ~call.args[1].given /\ call.result = "ok"
    /\ Acyclic(edges)
    /\ edges = {Edge("A", "B", NoKey), Edge("A", "C", NoKey), Edge("B", "C", "x")}

\* C2: an add_edge that would close a cycle (a self-loop included) raises
\* CycleError and leaves the task mapping and the edge set as they were
\* before the call.
C2_CycleLeavesFlowUnchanged ==
    (/\ call.op = "add_edge"
     /\ Acyclic(call.pre_edges)
     /\ ~Acyclic(call.pre_edges \cup {NewEdge})
     /\ call.result \notin {"DuplicateSlugError", "DuplicateKeyError"}) =>
        /\ call.result = "CycleError"
        /\ tasks = call.pre_tasks
        /\ edges = call.pre_edges

\* C3: the edge relation of the Flow is acyclic in every reachable state,
\* also after calls that raised.
C3_AlwaysAcyclic == Acyclic(edges)

\* C4 as stated: no two distinct edges share a downstream task and a
\* non-null key, and an add_edge whose (downstream task, non-null key) is
\* that of an edge of the Flow raises DuplicateKeyError and inserts no edge
\* (looked at on Flows that hold no cycle).
KeyedEdgesUnique ==
    \A e1 \in edges, e2 \in edges :
        (/\ e1.downstream_task = e2.downstream_task
         /\ e1.key = e2.key
         /\ e1.key # NoKey) => e1 = e2

KeyAlreadyUsed ==
    /\ call.op = "add_edge"
    /\ call.args[3] # NoKey
    /\ \E e \in call.pre_edges : /\ e.downstream_task = call.args[2].name
                                 /\ e.key = call.args[3]

C4_DuplicateKeyAsStated ==
    /\ KeyedEdgesUnique
    /\ (KeyAlreadyUsed /\ Acyclic(call.pre_edges)) =>
          (call.result = "DuplicateKeyError" /\ edges = call.pre_edges)

\* C4 amended: no two distinct edges share a downstream task and a non-null
\* key, and an add_edge whose (downstream task, non-null key) is that of an
\* edge of the Flow inserts no edge and raises DuplicateKeyError, or
\* DuplicateSlugError when auto-adding an endpoint has failed before the
\* key is looked at.
C4_DuplicateKey ==
    /\ KeyedEdgesUnique
    /\ KeyAlreadyUsed =>
        /\ edges = call.pre_edges
        /\ call.result \in {"DuplicateKeyError", "DuplicateSlugError"}
        /\ call.result = "DuplicateSlugError" =>
              \E t \in {call.args[1], call.args[2]} :
                  /\ t \notin Values(call.pre_tasks)
                  /\ t.slug \in Slugs(call.pre_tasks) \cup {call.args[1].slug}

C4_Witness ==
    /\ KeyAlreadyUsed
    /\ call.result = "DuplicateKeyError"
    /\ NewEdge \in call.pre_edges

\* C5: no two entries of the task mapping have the same slug, whatever
\* calls were made (successful or not).
C5_SlugsUnique ==
    \A n1 \in DOMAIN tasks, n2 \in DOMAIN tasks :
        tasks[n1].slug = tasks[n2].slug => n1 = n2

\* an add_edge has auto-added an endpoint that replaced the entry of its name
C5_Witness ==
    /\ call.op = "add_edge" /\ call.result = "ok"
    /\ \E n \in DOMAIN call.pre_tasks : tasks[n] # call.pre_tasks[n]
    /\ Cardinality(DOMAIN tasks) >= 2

\* C6: add_task(t) raises DuplicateSlugError and changes nothing when the
\* slug of t is the slug of a task of the mapping (the entry under t.name
\* included); otherwise it stores t under t.name, replacing the entry of
\* that name if any, and leaves the other entries and the edge set alone.
C6_AddTaskFrame ==
    (call.op = "add_task" /\ IsTask(call.args[1])) =>
        LET t == call.args[1]
        IN  IF t.slug \in Slugs(call.pre_tasks)
            THEN /\ call.result = "DuplicateSlugError"
                 /\ tasks = call.pre_tasks
                 /\ edges = call.pre_edges
            ELSE /\ call.result = "ok"
                 /\ DOMAIN tasks = DOMAIN call.pre_tasks \cup {t.name}
                 /\ tasks[t.name] = t
                 /\ \A n \in DOMAIN call.pre_tasks \ {t.name} :
                        tasks[n] = call.pre_tasks[n]
                 /\ edges = call.pre_edges

\* an add_task has replaced the entry of a name that edges refer to
C6_Witness ==
    /\ call.op = "add_task" /\ call.result = "ok"
    /\ call.args[1].name \in DOMAIN call.pre_tasks
    /\ call.pre_tasks[call.args[1].name] # call.args[1]
    /\ \E e \in edges : e.upstream_task = call.args[1].name

\* C7: sorted_tasks(root_tasks=R), R being tasks of the Flow given as
\* objects or names, returns exactly R and the tasks downstream of R, each
\* once; it returns unless the edges among these tasks have a cycle, and
\* it returns nothing for an empty R.
C7_RootClosure ==
    (/\ call.op = "sorted_tasks"
     /\ call.args[1].given
     /\ call.args[1].names \subseteq DOMAIN tasks) =>
        LET closure == ClosureNames(edges, call.args[1])
        IN  /\ call.result \in {"ok", "CycleError"}
            /\ Acyclic(Induced(edges, closure)) => call.result = "ok"
            /\ call.result = "ok" =>
                  /\ SeqRange(call.out) = {tasks[n] : n \in closure}
                  /\ NoRepeats(call.out)
            /\ closure = {} => call.out = <<>>

\* a root whose closure takes two edges to reach and leaves a task out
C7_Witness ==
    /\ call.op = "sorted_tasks" /\ call.result = "ok"
    /\ call.args[1] = Roots({"B"}, {})
    /\ Len(call.out) = 2
    /\ Cardinality(DOMAIN tasks) = 3
    /\ \E e \in edges : e.downstream_task = "B"

\* C8: on an acyclic Flow, sub_flow(root_tasks=R) returns a Flow whose task
\* mapping is the downstream closure of R (every task without root_tasks)
\* and whose edges are the edges of the original with both endpoints in the
\* closure; the original's task mapping and edge set are unchanged.
C8_SubFlow ==
    (/\ call.op = "sub_flow"
     /\ Acyclic(edges)
     /\ call.args[1].names \subseteq DOMAIN call.pre_tasks) =>
        LET closure == IF call.args[1].given
                       THEN ClosureNames(call.pre_edges, call.args[1])
                       ELSE DOMAIN call.pre_tasks
        IN  /\ call.result = "ok"
            /\ call.out.tasks = [n \in closure |-> call.pre_tasks[n]]
            /\ call.out.edges = Induced(call.pre_edges, closure)
            /\ tasks = call.pre_tasks
            /\ edges = call.pre_edges

\* a sub-flow that keeps one edge of the original and drops another
C8_Witness ==
    /\ call.op = "sub_flow" /\ call.result = "ok"
    /\ call.args[1].given
    /\ Acyclic(call.pre_edges)
    /\ call.out.edges # {}
    /\ call.out.edges # call.pre_edges
    /\ tasks = call.pre_tasks /\ edges = call.pre_edges
\* C9: safe_deserialize(serialize(flow)) succeeds and yields a Flow with
\* the task names and slugs, the edges (keys included) and the parameter
\* metadata of flow, in whatever order the edge records are replayed.
NamesAndSlugs(m) == {<<n, m[n].name, m[n].slug>> : n \in DOMAIN m}

C9_RoundTrip ==
    (loaded.path = "safe" /\ origin # NoRecord /\ loaded.from = origin) =>
        /\ loaded.result = "ok"
        /\ NamesAndSlugs(loaded.tasks) = NamesAndSlugs(tasks)
        /\ loaded.edges = edges
        /\ parameters([tasks |-> loaded.tasks, edges |-> loaded.edges])
              = parameters(Flow)

\* a Flow with a Parameter and a keyed edge among three edges went through
C9_Witness ==
    /\ loaded.path = "safe" /\ origin # NoRecord /\ loaded.from = origin
    /\ loaded.result = "ok"
    /\ Cardinality(loaded.edges) = 3
    /\ \E e \in loaded.edges : e.key # NoKey
    /\ DOMAIN parameters(Flow) # {}

\* C10: safe_deserialize hands nothing to the general-purpose deserializer,
\* runs no embedded code and does not read the blob: the record it read,
\* with any other blob in its place, yields the same Flow.
C10_SafePathIgnoresBlob ==
    loaded.path = "safe" =>
        /\ loaded.deserialized = {}
        /\ loaded.ran = {}
        /\ \A b \in Blobs :
              LET other == safe_deserialize([loaded.from EXCEPT !.serialized = b])
              IN  /\ other.result = loaded.result
                  /\ other.attrs = loaded.attrs
                  /\ other.tasks = loaded.tasks
                  /\ other.edges = loaded.edges

\* a record that came back with a blob that runs code was read on the safe path
C10_Witness ==
    /\ loaded.path = "safe" /\ loaded.result = "ok"
    /\ loaded.from.serialized.payload = "exploit"
    /\ loaded.edges # {}


\* ------------------------------------------------------------------------
\* Properties of the DaskExecutor

\* The call that has just ended was made on an executor that was not
\* started: never started, or after its scope was left
NotStartedCall(op) == ecall.op = op /\ ~ecall.pre.is_started

\* C11: submit called while the executor is not started raises
\* NotStartedError, returns nothing and schedules no work.
C11_SubmitNotStartedRaises ==
    NotStartedCall("submit") =>
        /\ ecall.result = "NotStartedError"
        /\ futures = ecall.pre_futures

\* C12: map called while the executor is not started (never started, or
\* after its start scope has exited) raises NotStartedError and submits no
\* call to the backend.
C12_MapNotStartedRaises ==
    NotStartedCall("map") =>
        /\ ecall.result = "NotStartedError"
        /\ futures = ecall.pre_futures

\* map is refused both on an executor that was never started and on one
\* whose scope was left with work still held by the backend
C12_Witness ==
    /\ NotStartedCall("map")
    /\ ecall.by = "top"
    /\ ecall.pre.has_client
    /\ ecall.pre_scopes = <<>>
    /\ ecall.pre_futures # <<>>
    /\ ecall.arg.x # <<>>

\* C13: wait applied to an empty list of futures returns an empty list
\* without error in every state of the executor, before start() was ever
\* called and after the scope has exited included.
C13_WaitEmptyReturnsEmpty ==
    (ecall.op = "wait" /\ ecall.fs = ListOf(<<>>)) =>
        /\ ecall.result = "ok"
        /\ ecall.out = ListOf(<<>>)


\* The calls of fn that map(fn, upstream_states=S) is to make, in order
Expected(S) == [i \in 1..Len(S.x) |-> Args(<<S.x[i]>>, S.c, 0)]

\* The mapper of future j has run and made exactly the calls of Expected,
\* the i-th future of its result being the i-th call
ScheduledInOrder(j) ==
    LET S == futures[j].arg
        r == futures[j].result
    IN  /\ r.k = "list"
        /\ Len(r.items) = Len(S.x)
        /\ \A i \in 1..Len(S.x) :
            /\ r.items[i].k = "fut"
            /\ futures[r.items[i].v].kind = "fn"
            /\ futures[r.items[i].v].by = "mapper"
            /\ futures[r.items[i].v].arg = Expected(S)[i]
        /\ \A i, k \in 1..Len(S.x) : r.items[i] = r.items[k] => i = k

\* the number of elements over the iterables of the maps that have run
RECURSIVE Mapped(_)
Mapped(futs) ==
    IF futs = <<>> THEN 0
    ELSE Mapped(Tail(futs))
           + (IF Head(futs).kind = "mapper" /\ Head(futs).done
              THEN Len(Head(futs).arg.x) ELSE 0)

\* C14: on a started executor, map(fn, upstream_states=S) where S has an
\* iterable value of length n schedules exactly n calls of fn, the i-th
\* call receiving the i-th element of each iterable value and every scalar
\* value unchanged, and wait on the result returns the n results in index
\* order.
C14_MapSchedulesEachElement ==
    /\ \A j \in 1..Len(futures) :
        (futures[j].kind = "mapper" /\ futures[j].done) => ScheduledInOrder(j)
    /\ Cardinality({i \in 1..Len(futures) : futures[i].by = "mapper"})
         = Mapped(futures)
    /\ (ecall.op = "wait" /\ ecall.fs.k = "fut" /\ ecall.pre.is_started
            /\ futures[ecall.fs.v].kind = "mapper") =>
        /\ ecall.result = "ok"
        /\ ecall.out = ListOf([i \in 1..Len(futures[ecall.fs.v].arg.x) |->
                                  Val(FnApply(Expected(futures[ecall.fs.v].arg)[i]))])

\* wait has returned the results of a map over two different elements, the
\* call of the second element having completed first
C14_Witness ==
    /\ ecall.op = "wait"
    /\ ecall.fs.k = "fut"
    /\ futures[ecall.fs.v].kind = "mapper"
    /\ LET S == futures[ecall.fs.v].arg
           r == futures[ecall.fs.v].result
       IN  /\ Len(S.x) = 2
           /\ S.x[1] # S.x[2]
           /\ futures[r.items[2].v].at < futures[r.items[1].v].at
           /\ ecall.out = ListOf(<<Val(10 * S.x[1] + S.c), Val(10 * S.x[2] + S.c)>>)

\* wait was given a list of futures that submit returned to the top-level
\* code
SubmittedList(fs) ==
    /\ fs.k = "list"
    /\ \A i \in 1..Len(fs.items) :
        /\ futures[fs.items[i].v].kind = "fn"
        /\ futures[fs.items[i].v].by = "top"

\* C15: for futures f1..fn returned by submit on a started executor,
\* wait([f1..fn]) called inside the start scope returns [r1..rn], ri the
\* return value of the call of fi, in the order the futures were passed,
\* whatever the order in which the backend completed the calls.
C15_WaitKeepsOrder ==
    (ecall.op = "wait" /\ ecall.pre.is_started /\ SubmittedList(ecall.fs)) =>
        /\ ecall.result = "ok"
        /\ ecall.out = ListOf([i \in 1..Len(ecall.fs.items) |->
                                  Val(FnApply(futures[ecall.fs.items[i].v].arg))])

\* wait has returned the results of two calls in the order passed, the
\* call passed second having completed first
C15_Witness ==
    /\ ecall.op = "wait"
    /\ ecall.result = "ok"
    /\ SubmittedList(ecall.fs)
    /\ Len(ecall.fs.items) = 2
    /\ futures[ecall.fs.items[2].v].at < futures[ecall.fs.items[1].v].at
    /\ ecall.out.items[1] # ecall.out.items[2]


\* A value with no future in it
RECURSIVE Concrete(_)
Concrete(x) ==
    IF x.k = "fut" THEN FALSE
    ELSE IF x.k = "list" THEN \A i \in 1..Len(x.items) : Concrete(x.items[i])
    ELSE TRUE

\* C16: wait fully unwraps nested futures: for futures that resolve to
\* futures (or lists of futures) nested to any depth, what wait returns
\* holds only concrete results and no unresolved future.
C16_WaitFullyUnwraps ==
    (ecall.op = "wait" /\ ecall.result = "ok") => Concrete(ecall.out)


\* The caller is blocked in a wait whose timeout has elapsed with futures
\* still unresolved
Overdue ==
    /\ waiting.active
    /\ waiting.timeout # 0
    /\ now > waiting.start + waiting.timeout
    /\ ~GathersReady(waiting.fs, futures, GatherPasses)

\* C17: wait(futures, timeout=t) with t given fails with TimeoutError
\* whenever the futures are not all resolved once t has elapsed: the caller
\* is never still blocked after that, the timeout is not ignored.
C17_TimeoutEnforced == ~Overdue


\* The call that has just ended left a start scope: at the end of its
\* body, by an exception of the body, or because no session was acquired
LeftScope == ecall.op = "start" /\ ecall.how \in {"normal", "exception", "failed"}

\* C18: the executor is started only while a start() scope is open, with
\* the open session of the innermost scope; the sessions that are open are
\* those of the open scopes; on every way of leaving the scope the executor
\* ends not started with its session released; and start() on an executor
\* that is not started starts it again.
C18_StartedOnlyInScope ==
    /\ executor.is_started =>
        /\ scopes # <<>>
        /\ executor.client = scopes[Len(scopes)]
        /\ sessions[executor.client] = "open"
    /\ \A i \in 1..Len(sessions) :
        sessions[i] = "open" <=> i \in SeqRange(scopes)
    /\ LeftScope =>
        /\ ~executor.is_started
        /\ executor.client = 0
        /\ ecall.how = "failed" => scopes = ecall.pre_scopes
        /\ ecall.how # "failed" =>
            /\ Len(scopes) = Len(ecall.pre_scopes) - 1
            /\ sessions[ecall.pre_scopes[Len(ecall.pre_scopes)]] = "closed"
    /\ (ecall.op = "start" /\ ecall.how = "enter") => executor.is_started

\* the executor has been started again after its first scope was left
C18_Witness ==
    /\ ecall.op = "start"
    /\ ecall.how = "enter"
    /\ ecall.pre = ExecutorObject(FALSE, TRUE, 0)
    /\ ecall.pre_scopes = <<>>
    /\ sessions = <<"closed", "open">>
    /\ executor.is_started

\* a map call has returned normally
MapReturned == ecall.op = "map" /\ ecall.result = "ok"

\* C19 as stated: map returns a future that resolves to the list of
\* per-element futures when called from the top level, and the list itself
\* when called from code running in a worker.
C19_MapListInWorker ==
    MapReturned =>
        IF ecall.by = "top" THEN ecall.out.k = "fut" ELSE ecall.out.k = "list"

\* C19, amended: from the top level and from a worker alike, map returns
\* the future of its mapper, which resolves to the list of per-element
\* futures.
C19_MapReturnsFuture ==
    /\ MapReturned =>
        /\ ecall.out.k = "fut"
        /\ futures[ecall.out.v].kind = "mapper"
        /\ futures[ecall.out.v].arg = ecall.arg
    /\ \A j \in 1..Len(futures) :
        (futures[j].kind = "mapper" /\ futures[j].done) =>
            /\ futures[j].result.k = "list"
            /\ Len(futures[j].result.items) = Len(futures[j].arg.x)
            /\ \A i \in 1..Len(futures[j].arg.x) :
                futures[j].result.items[i].k = "fut"

\* map called from a worker has returned a future, and the mapper of a map
\* called from a worker has run
C19_Witness ==
    /\ MapReturned
    /\ ecall.by = "copy"
    /\ ecall.out.k = "fut"
    /\ \E j \in 1..Len(futures) :
        /\ futures[j].by = "copy"
        /\ futures[j].kind = "mapper"
        /\ futures[j].done
        /\ futures[j].result.items # <<>>

\* C20: a copy of a started executor sent to a worker keeps is_started and
\* has no client attribute; every submit and map on it goes through a
\* client of the worker it runs in and never through the session of the
\* top level; the top-level executor in its scope uses the session of the
\* scope.
C20_WorkerRouting ==
    /\ worker_copy.present => worker_copy.ex = ExecutorObject(TRUE, FALSE, 0)
    /\ \A i \in 1..Len(futures) :
        /\ futures[i].by = "copy" => futures[i].handle = "worker"
        /\ futures[i].by = "top" => futures[i].handle = "session"
    /\ (ecall.op \in {"submit", "map"} /\ ecall.pre.is_started) =>
        /\ ecall.result = "ok"
        /\ ecall.out.k = "fut"
        /\ IF ecall.by = "copy"
           THEN /\ futures[ecall.out.v].handle = "worker"
                /\ futures[ecall.out.v].session = worker_copy.session
           ELSE /\ futures[ecall.out.v].handle = "session"
                /\ futures[ecall.out.v].session = scopes[Len(scopes)]

\* the copy has submitted work from its worker while the top-level
\* executor holds another session
C20_Witness ==
    /\ ecall.op \in {"submit", "map"}
    /\ ecall.by = "copy"
    /\ ecall.result = "ok"
    /\ executor.is_started
    /\ executor.client # worker_copy.session
    /\ futures[ecall.out.v].handle = "worker"
    /\ \E i \in 1..Len(futures) : futures[i].by = "top"


\* ------------------------------------------------------------------------
\* Properties of the Flow, continued

\* The Flow and the Flow it was compared with have the same class,
\* project, name, version, task mapping and edge set
SameComps(G) ==
    /\ G.attrs.project = FlowAttrs.project
    /\ G.attrs.name = FlowAttrs.name
    /\ G.attrs.version = FlowAttrs.version
    /\ G.tasks = tasks
    /\ G.edges = edges

\* C21: comparing two Flows with == never fails with an error, and returns
\* true exactly when they have the same class, project, name, version,
\* task mapping and edge set.
C21_EqualityDecides ==
    call.op = "__eq__" =>
        /\ call.result = "ok"
        /\ call.out = <<SameComps(Other(call.args[1]))>>


\* The edges set_dependencies(task, U, D, R) is to add, in order: (u, task)
\* for u in U, (task, d) for d in D, (t, task, key) for (key, t) in R
Wanted(task, U, D, R) ==
    [i \in 1..Len(U) |-> Edge(U[i], task, NoKey)]
    \o [i \in 1..Len(D) |-> Edge(task, D[i], NoKey)]
    \o [i \in 1..Len(R) |-> Edge(R[i].task, task, R[i].key)]

\* The edge of the Flow that step k of W adds (edges name their tasks)
Added(W, k) == Edge(W[k].upstream_task.name, W[k].downstream_task.name, W[k].key)

\* The Flow after the first k add_edge steps of W, the last of them
\* possibly failed
RECURSIVE AfterSteps(_, _, _)
AfterSteps(F, W, k) ==
    IF k = 0 THEN F
    ELSE LET G == AfterSteps(F, W, k - 1)
         IN  add_edge(G, W[k].upstream_task, W[k].downstream_task, W[k].key)

\* The Flow a set_dependencies call starts its add_edge steps from: the
\* Flow of before the call, with task added
Started(task) ==
    LET F == [tasks |-> call.pre_tasks, edges |-> call.pre_edges]
    IN  IF task \in Values(call.pre_tasks) THEN Outcome(F.tasks, F.edges, "ok")
        ELSE add_task(F, task)

\* C22: a successful set_dependencies(task, U, D, R) leaves the Flow with
\* task present and with the edges of before plus the wanted edges, added
\* in order; when an add_edge step fails its error propagates and the
\* edges added by the earlier steps of the call remain in the Flow.
C22_SetDependenciesSteps ==
    call.op = "set_dependencies" =>
        LET task == call.args[1]
            W == Wanted(task, call.args[2], call.args[3], call.args[4])
            F0 == Started(task)
        IN  /\ call.result = "ok" =>
                /\ task \in Values(tasks)
                /\ edges = call.pre_edges \cup {Added(W, j) : j \in 1..Len(W)}
                /\ \A k \in 1..Len(W) : AfterSteps(F0, W, k).result = "ok"
            /\ (call.result # "ok" /\ F0.result = "ok") =>
                \E k \in 1..Len(W) :
                    /\ \A j \in 1..(k - 1) : AfterSteps(F0, W, j).result = "ok"
                    /\ AfterSteps(F0, W, k).result = call.result
                    /\ call.pre_edges \cup {Added(W, j) : j \in 1..(k - 1)}
                           \subseteq edges
                    /\ edges \subseteq call.pre_edges \cup {Added(W, j) : j \in 1..k}
                    /\ tasks = AfterSteps(F0, W, k).tasks
            /\ F0.result # "ok" =>
                /\ call.result = F0.result
                /\ edges = call.pre_edges

\* a call has failed at its second step and the edge of its first step has
\* stayed in the Flow
C22_Witness ==
    /\ call.op = "set_dependencies"
    /\ call.result # "ok"
    /\ LET W == Wanted(call.args[1], call.args[2], call.args[3], call.args[4])
       IN  /\ Len(W) = 2
           /\ Added(W, 1) \notin call.pre_edges
           /\ Added(W, 1) \in edges
           /\ Added(W, 2) \notin edges


\* The names of the tasks a sorted_tasks(root_tasks=R) call works on: every
\* task, or the roots with everything downstream of them
WorkingSet(R) == IF R.given THEN ClosureNames(edges, R) ELSE DOMAIN tasks

\* C23: sorted_tasks(root_tasks=R) raises CycleError exactly when the edges
\* between the tasks of its working set contain a cycle: a cycle among
\* other tasks does not make it fail, and what it returns for a working
\* set without a cycle is the whole set in an order that respects the
\* edges.
C23_CycleErrorExactly ==
    (/\ call.op = "sorted_tasks"
     /\ call.args[1].given => call.args[1].names \subseteq DOMAIN tasks) =>
        LET W == WorkingSet(call.args[1])
            E == Induced(edges, W)
        IN  /\ call.result = (IF Acyclic(E) THEN "ok" ELSE "CycleError")
            /\ call.result = "ok" =>
                /\ SeqRange(call.out) = {tasks[n] : n \in W}
                /\ NoRepeats(call.out)
                /\ \A e \in E : Position(call.out, e.upstream_task)
                                    < Position(call.out, e.downstream_task)
            /\ call.result # "ok" => call.out = <<>>

\* the tasks downstream of a root have been sorted in a Flow that has a
\* cycle among its other tasks
C23_Witness ==
    /\ call.op = "sorted_tasks"
    /\ call.args[1].given
    /\ call.result = "ok"
    /\ Len(call.out) = 2
    /\ ~Acyclic(edges)
    /\ Induced(edges, WorkingSet(call.args[1])) # {}


\* C24: whenever add_edge fails with DuplicateKeyError or with the
\* DuplicateSlugError of an auto-added endpoint, the task mapping and the
\* edge set are what they were before the call: no endpoint auto-added
\* earlier in the call stays in the Flow.  (Calls on a Flow that a failed
\* cycle check has left cyclic are set aside.)
C24_FailedAddEdgeLeavesFlow ==
    (/\ call.op = "add_edge"
     /\ call.result \in {"DuplicateKeyError", "DuplicateSlugError"}
     /\ Acyclic(call.pre_edges)) =>
        /\ tasks = call.pre_tasks
        /\ edges = call.pre_edges


\* The Flow G is well formed: every edge endpoint is a task of the Flow,
\* slugs are unique, keyed edges are unique per downstream task and the
\* edges have no cycle
WellFormed(G) ==
    /\ \A e \in G.edges : {e.upstream_task, e.downstream_task} \subseteq DOMAIN G.tasks
    /\ \A n, m \in DOMAIN G.tasks : G.tasks[n].slug = G.tasks[m].slug => n = m
    /\ \A e, f \in G.edges :
        (e.key # NoKey /\ e.key = f.key /\ e.downstream_task = f.downstream_task)
            => e = f
    /\ Acyclic(G.edges)

\* C25: for every persisted record, untrusted ones included (edges naming
\* absent tasks, duplicate (downstream_task, key) pairs, duplicate slugs,
\* cyclic edges), safe_deserialize fails with an error and returns no
\* Flow, or returns a well-formed Flow.
C25_SafeLoadWellFormed ==
    loaded.path = "safe" =>
        IF loaded.result = "ok" THEN WellFormed(loaded)
        ELSE loaded.tasks = EmptyMap /\ loaded.edges = {}

\* a Flow has been returned for an untrusted record with two tasks and
\* two edges between them, one of them keyed
C25_Witness ==
    /\ loaded.path = "safe"
    /\ loaded.result = "ok"
    /\ persisted # origin
    /\ Cardinality(DOMAIN loaded.tasks) = 2
    /\ Cardinality(loaded.edges) = 2
    /\ \E e \in loaded.edges : e.key # NoKey


\* an untrusted record with a cycle, with a repeated key, with an edge that
\* names an absent task or with a repeated slug has been refused
C25_Refused ==
    /\ loaded.path = "safe"
    /\ persisted # origin
    /\ loaded.result \in {"CycleError", "DuplicateKeyError", "NotFoundError",
                          "DuplicateSlugError"}


\* ------------------------------------------------------------------------
\* Properties of the DaskExecutor, continued

\* C26: when start() is entered on an executor whose scope is already
\* open, the executor is still started and holds a live session after the
\* inner scope has exited, and submit and map called at the top level work
\* for as long as a scope is open.
C26_NestedScopesKeepStarted ==
    /\ (ecall.op = "start" /\ ecall.how \in {"normal", "exception"}
            /\ Len(ecall.pre_scopes) >= 2) =>
        /\ executor.is_started
        /\ executor.client # 0
        /\ sessions[executor.client] = "open"
    /\ (ecall.op \in {"submit", "map"} /\ ecall.by = "top"
            /\ ecall.pre_scopes # <<>>) =>
        /\ ecall.result = "ok"
        /\ ecall.out.k = "fut"

====
